---------------------------- MODULE Spec2Model ----------------------------
(***************************************************************************)
(* Model of the LuxAI chat client facade (src/claude_client.py) and of its *)
(* two demonstration entry points (the __main__ block of claude_client.py  *)
(* and main() of example_usage.py).                                        *)
(*                                                                         *)
(* The vendor transport (anthropic.Anthropic) is an external collaborator: *)
(* it is modelled as a stub whose behaviour for each request is an input   *)
(* (a reply with a list of content blocks, an error, or a text stream with *)
(* a script of fragments and an ending), and which records the request it  *)
(* is given and the release of its stream resource.                        *)
(*                                                                         *)
(* Python values: None is the string "<None>"; a dict is a function from   *)
(* key strings to values; a list is a sequence.                            *)
(***************************************************************************)
EXTENDS Integers, Sequences, FiniteSets, TLC

\* ------------------------------------------------------------------ bounds
\* Longest text stream the stub transport is scripted with.
MaxFrags == 2
\* Longest conversation handed to chat_with_history.
MaxTurns == 3
\* Most extra options (**kwargs) in one call.
MaxExtras == 1
\* Most generators the caller has set aside at one time.
MaxBackground == 2

\* ------------------------------------------------------------ input values
None == "<None>"

\* Credentials: omitted (None), empty, or a key.
ApiKeyArgs == {None, "", "sk-arg"}
EnvValues  == {None, "", "sk-env"}

DefaultModel       == "claude-3-5-sonnet-20241022"
DefaultMaxTokens   == 1024
DefaultTemperature == "1.0"
OtherMaxTokens     == DefaultMaxTokens \div 4

\* The named arguments model, max_tokens and temperature: all left at their
\* defaults (lines 32-35), or all given.
NamedArgs ==
    {[model |-> DefaultModel, max_tokens |-> DefaultMaxTokens,
      temperature |-> DefaultTemperature],
     [model |-> "claude-3-5-haiku-20241022", max_tokens |-> OtherMaxTokens,
      temperature |-> "0.2"]}
SystemPrompts == {None, "", "Be brief."}
Texts         == {"ping", "hello"}
Fragments     == {"a", "b"}
TransportErrors == {"APIConnectionError", "RateLimitError"}

UserTurn(text) == [role |-> "user", content |-> text]

Turns == {UserTurn("What's my name?"),
          [role |-> "assistant", content |-> "Nice to meet you!"]}

RECURSIVE SeqsUpTo(_, _)
SeqsUpTo(S, n) ==
    IF n = 0 THEN {<<>>}
    ELSE LET shorter == SeqsUpTo(S, n - 1)
         IN  shorter \cup {Append(s, x) : s \in {t \in shorter : Len(t) = n - 1}, x \in S}

\* The value an extra option carries in this model, per request key.
ExtraValue(k) ==
    CASE k = "messages" -> <<UserTurn("injected")>>
      [] k = "system"   -> "Extra system."
      [] k = "stream"   -> FALSE
      [] OTHER          -> "0.9"

\* Python binds a keyword argument to the parameter of that name, so **kwargs
\* never holds a key named like a parameter of the method: `messages` can be an
\* extra of chat and chat_stream (whose parameter is `message`), not of
\* chat_with_history; model, max_tokens and temperature can be an extra of none.
ExtraKeys(method) ==
    IF method = "chat_with_history" THEN {"system", "stream", "top_p"}
    ELSE {"messages", "system", "stream", "top_p"}

ExtraOptions(method) ==
    {[k \in K |-> ExtraValue(k)] :
        K \in {X \in SUBSET ExtraKeys(method) : Cardinality(X) <= MaxExtras}}

\* ------------------------------------------------- ClaudeClient.__init__
Truthy(v) == v # None /\ v # ""

\* Mutant: the environment variable is preferred to the argument.
InitApiKeyEnvFirst(api_key_arg, environ) ==
    IF Truthy(environ) THEN environ ELSE api_key_arg

\* line 21: `api_key or os.getenv("ANTHROPIC_API_KEY")`
InitApiKey(api_key_arg, environ) ==
    IF Truthy(api_key_arg) THEN api_key_arg ELSE environ

\* `or` evaluates os.getenv only when its left operand is falsy.
InitReadsEnv(api_key_arg) == ~Truthy(api_key_arg)

\* Mutant: only the empty string is rejected, None passes.
InitRaisesOnlyEmpty(key) == key = ""

\* line 22: `if not self.api_key: raise ValueError(...)`
InitRaises(key) == ~Truthy(key)

\* line 27: the transport handle bound to the credential.
Anthropic(key) == [api_key |-> key]
NoClient == [api_key |-> None]

\* -------------------------------------------------------- request building
\* Mutant: the base entries win over the extras.
MergeBaseFirst(base, kwargs) ==
    [k \in DOMAIN base \cup DOMAIN kwargs |->
        IF k \in DOMAIN base THEN base[k] ELSE kwargs[k]]

Merge(base, kwargs) ==
    [k \in DOMAIN base \cup DOMAIN kwargs |->
        IF k \in DOMAIN kwargs THEN kwargs[k] ELSE base[k]]

\* lines 62-63, 102-103, 140-141: `if system_prompt: params["system"] = ...`
WithSystem(params, system_prompt) ==
    IF Truthy(system_prompt)
    THEN [k \in DOMAIN params \cup {"system"} |->
            IF k = "system" THEN system_prompt ELSE params[k]]
    ELSE params

\* lines 52-63
ChatParams(message, model, system_prompt, max_tokens, temperature, kwargs) ==
    WithSystem(
        Merge([model |-> model, messages |-> <<UserTurn(message)>>,
               max_tokens |-> max_tokens, temperature |-> temperature], kwargs),
        system_prompt)

\* lines 91-103
StreamParams(message, model, system_prompt, max_tokens, temperature, kwargs) ==
    WithSystem(
        Merge([model |-> model, messages |-> <<UserTurn(message)>>,
               max_tokens |-> max_tokens, temperature |-> temperature,
               stream |-> TRUE], kwargs),
        system_prompt)

\* Mutant: a user turn is synthesized after the caller's turns, as chat does.
HistoryParamsSynth(messages, model, system_prompt, max_tokens, temperature, kwargs) ==
    [model |-> model, messages |-> Append(messages, UserTurn("")),
     max_tokens |-> max_tokens, temperature |-> temperature]

\* lines 132-141
HistoryParams(messages, model, system_prompt, max_tokens, temperature, kwargs) ==
    WithSystem(
        Merge([model |-> model, messages |-> messages,
               max_tokens |-> max_tokens, temperature |-> temperature], kwargs),
        system_prompt)

\* ------------------------------------------------------- transport stub
\* What messages.create does with one request: reply or raise.
Block(text) == [type |-> "text", text |-> text]
Contents == {<<>>, <<Block("pong")>>, <<Block("pong"), Block("more")>>,
             <<Block("first"), Block("pong")>>}
CreateBehaviours ==
    {[kind |-> "reply", content |-> c, err |-> None] : c \in Contents}
    \cup {[kind |-> "raise", content |-> <<>>, err |-> e] : e \in TransportErrors}

Returned(v) == [kind |-> "return", value |-> v]
Raised(e)   == [kind |-> "raise", value |-> e]
NoResult    == [kind |-> "none", value |-> None]

\* Mutant: the last content block is unwrapped instead of the first.
FirstTextLast(behaviour) ==
    IF behaviour.kind = "raise" THEN Raised(behaviour.err)
    ELSE IF behaviour.content = <<>> THEN Raised("IndexError")
    ELSE Returned(behaviour.content[Len(behaviour.content)].text)

\* Mutant: a transport error is swallowed and an empty text returned.
FirstTextSwallow(behaviour) ==
    IF behaviour.kind = "raise" \/ behaviour.content = <<>> THEN Returned("")
    ELSE Returned(behaviour.content[1].text)

\* lines 65-66, 143-144: `response = create(**params)`; `response.content[0].text`
FirstText(behaviour) ==
    IF behaviour.kind = "raise" THEN Raised(behaviour.err)
    ELSE IF behaviour.content = <<>> THEN Raised("IndexError")
    ELSE Returned(behaviour.content[1].text)

\* What messages.stream does with one request: raise at once, or open a text
\* stream that yields `script` and then ends ("eos") or raises (an error name).
StreamBehaviours ==
    {[open |-> None, script |-> s, ending |-> e] :
        s \in SeqsUpTo(Fragments, MaxFrags), e \in {"eos"} \cup TransportErrors}
    \cup {[open |-> e, script |-> <<>>, ending |-> "eos"] : e \in TransportErrors}

\* ------------------------------------------------------------------ state
VARIABLES
    env,          \* os.environ["ANTHROPIC_API_KEY"], None when unset
    facades,      \* the credentials (self.api_key) of the instances constructed
                  \*   so far; the caller may call any of them
    ctorResult,   \* "none" | "ok" | "ValueError": how the last __init__ ended
    ctorArg,      \* the api_key argument of that __init__
    envAtCtor,    \* the environment variable's value when that __init__ began
    envReads,     \* os.getenv calls made by that __init__
    api_key,      \* self.api_key as that __init__ set it
    client,       \* self.client as that __init__ set it, NoClient when it did not
    method,       \* the call the caller has just made, "none" when it has let go
                  \*   of it
    args,         \* its arguments (self is the instance's credential)
    transport,    \* how the stub transport behaved for it
    request,      \* the request the stub transport recorded, NoRequest before it
    calls,        \* transport requests made by that operation
    result,       \* what the caller got from the call, or from the last next()
    genState,     \* the generator the caller is iterating: "none" | "created"
                  \*   | "suspended" | "finished" | "raised" | "closed"
    delivered,    \* fragments the transport's text stream has produced for it
                  \*   since the caller took it up
    yielded,      \* fragments the caller received from it since then
    acquired,     \* stream resources entered (__enter__) by that generator
    released,     \* stream resources exited (__exit__) by that generator
    bgCreated,    \* generators the caller set aside before their first next():
                  \*   bound arguments only, no request made, no stream held
    bgOpen,       \* generators the caller set aside suspended at the `yield`,
                  \*   each inside its `with` block, holding an open stream
    demo          \* a demonstration entry point run: [entry, out, exit, error]

facadeVars == <<ctorResult, ctorArg, envAtCtor, envReads, api_key, client>>
opVars     == <<method, args, transport, request, calls, result>>
genVars    == <<genState, delivered, yielded, acquired, released>>
bgVars     == <<bgCreated, bgOpen>>
vars       == <<env, facades, facadeVars, opVars, genVars, bgVars, demo>>

NoRequest   == [k \in {} |-> None]
NoArgs      == [self |-> None, input |-> None, model |-> None,
                system_prompt |-> None, max_tokens |-> 0, temperature |-> None,
                kwargs |-> NoRequest]
NoTransport == [kind |-> "none"]
NoDemo      == [entry |-> "none", out |-> <<>>, exit |-> "none", error |-> None]

\* Mutant: the list depends on whether a stream of the transport is open.
get_available_models_by_transport ==
    IF bgOpen > 0 THEN << "claude-3-5-sonnet-20241022" >>
    ELSE << "claude-3-5-sonnet-20241022", "claude-3-5-haiku-20241022" >>

\* ------------------------------------------- ClaudeClient.get_available_models
get_available_models ==
    << "claude-3-5-sonnet-20241022",
       "claude-3-5-haiku-20241022",
       "claude-3-opus-20240229",
       "claude-3-sonnet-20240229",
       "claude-3-haiku-20240307" >>

\* -------------------------------------------------------------------- Init
Init ==
    /\ env \in EnvValues
    /\ facades = {}
    /\ ctorResult = "none" /\ ctorArg = None /\ envAtCtor = None /\ envReads = 0
    /\ api_key = None /\ client = NoClient
    /\ method = "none" /\ args = NoArgs /\ transport = NoTransport
    /\ request = NoRequest /\ calls = 0 /\ result = NoResult
    /\ genState = "none" /\ delivered = <<>> /\ yielded = <<>>
    /\ acquired = 0 /\ released = 0
    /\ bgCreated = 0 /\ bgOpen = 0
    /\ demo = NoDemo

\* The process is running: no demonstration entry point has run to its exit.
Running == demo.exit = "none"
\* The generator the caller is iterating can still be resumed or closed.
GenLive == genState \in {"created", "suspended"}
\* The facade has no guard of its own: any instance can be called at any time,
\* whatever calls were made before, while generators are open, and after a
\* failed construction.  The variables of opVars and genVars hold one call at a
\* time, so the caller lets go of the call it made (Forget), or sets the
\* generator it is iterating aside (Abandon), before its next call; both steps
\* are always possible and run no code of the facade.
CanCall == Running /\ method = "none" /\ facades # {}

ResetCtor ==
    /\ ctorResult' = "none" /\ ctorArg' = None /\ envAtCtor' = None
    /\ envReads' = 0 /\ api_key' = None /\ client' = NoClient
ResetOp ==
    /\ method' = "none" /\ args' = NoArgs /\ transport' = NoTransport
    /\ request' = NoRequest /\ calls' = 0 /\ result' = NoResult
ResetGen ==
    /\ genState' = "none" /\ delivered' = <<>> /\ yielded' = <<>>
    /\ acquired' = 0 /\ released' = 0

\* The body of __init__, lines 21-27, run with `environ` as the environment: an
\* instance exists for the caller only when __init__ returns.
Initialize(api_key_arg, environ) ==
    /\ ctorArg' = api_key_arg
    /\ envAtCtor' = environ
    /\ envReads' = IF InitReadsEnv(api_key_arg) THEN 1 ELSE 0
    /\ api_key' = InitApiKey(api_key_arg, environ)
    /\ IF InitRaises(api_key')
       THEN ctorResult' = "ValueError" /\ client' = NoClient /\ facades' = facades
       ELSE /\ ctorResult' = "ok" /\ client' = Anthropic(api_key')
            /\ facades' = facades \cup {api_key'}

\* ClaudeClient(api_key), lines 14-27.  The instances constructed before stay
\* as they are, also when this construction fails.
Construct(api_key_arg) ==
    /\ Running /\ method = "none"
    /\ Initialize(api_key_arg, env)
    /\ method' = "__init__"
    /\ UNCHANGED <<env, args, transport, request, calls, result, genVars, bgVars,
                   demo>>

MkArgs(self, input, model, system_prompt, max_tokens, temperature, kwargs) ==
    [self |-> self, input |-> input, model |-> model,
     system_prompt |-> system_prompt, max_tokens |-> max_tokens,
     temperature |-> temperature, kwargs |-> kwargs]

\* ClaudeClient.chat, lines 29-66
Chat(self, message, model, system_prompt, max_tokens, temperature, kwargs, behaviour) ==
    /\ CanCall /\ self \in facades
    /\ method' = "chat"
    /\ args' = MkArgs(self, message, model, system_prompt, max_tokens,
                      temperature, kwargs)
    /\ request' = ChatParams(message, model, system_prompt, max_tokens,
                             temperature, kwargs)
    /\ transport' = behaviour
    /\ calls' = calls + 1
    /\ result' = FirstText(behaviour)
    /\ UNCHANGED <<env, facades, facadeVars, genVars, bgVars, demo>>

\* ClaudeClient.chat_with_history, lines 109-144
ChatWithHistory(self, messages, model, system_prompt, max_tokens, temperature, kwargs, behaviour) ==
    /\ CanCall /\ self \in facades
    /\ method' = "chat_with_history"
    /\ args' = MkArgs(self, messages, model, system_prompt, max_tokens,
                      temperature, kwargs)
    /\ request' = HistoryParams(messages, model, system_prompt, max_tokens,
                                temperature, kwargs)
    /\ transport' = behaviour
    /\ calls' = calls + 1
    /\ result' = FirstText(behaviour)
    /\ UNCHANGED <<env, facades, facadeVars, genVars, bgVars, demo>>

\* ClaudeClient.chat_stream, lines 68-107: calling a generator function runs
\* none of its body; it only binds the arguments.
ChatStream(self, message, model, system_prompt, max_tokens, temperature, kwargs) ==
    /\ CanCall /\ self \in facades
    /\ method' = "chat_stream"
    /\ args' = MkArgs(self, message, model, system_prompt, max_tokens,
                      temperature, kwargs)
    /\ genState' = "created"
    /\ UNCHANGED <<env, facades, facadeVars, transport, request, calls, result,
                   delivered, yielded, acquired, released, bgVars, demo>>

\* Mutant: the first fragment received is replayed for every later one.
YieldOfReplay(text) == IF yielded # <<>> THEN yielded[1] ELSE text

\* line 107: the fragment handed to the caller for the one the stream produced.
YieldOf(text) == text

Yielded(v) == [kind |-> "yield", value |-> v]
Stopped    == [kind |-> "stop", value |-> None]

\* lines 106-107 and the exit of the `with` block: the generator asks the text
\* stream for its next item, which is a fragment, the end of the stream or an
\* error raised by the transport.
Iterate(item) ==
    IF item \in Fragments
    THEN /\ delivered' = Append(delivered, item)
         /\ yielded' = Append(yielded, YieldOf(item))
         /\ result' = Yielded(YieldOf(item))
         /\ genState' = "suspended"
         /\ released' = released
    ELSE /\ released' = released + 1
         /\ UNCHANGED <<delivered, yielded>>
         /\ IF item = "eos"
            THEN result' = Stopped /\ genState' = "finished"
            ELSE result' = Raised(item) /\ genState' = "raised"

StreamItems == Fragments \cup {"eos"} \cup TransportErrors

\* next() on the generator the caller is iterating.  The first next() runs
\* lines 91-105: it builds the request and calls messages.stream, which raises
\* `open` or hands out the stream resource that the `with` statement enters.
GenNext(open, item) ==
    /\ Running /\ GenLive
    /\ item \in Fragments => Len(delivered) < MaxFrags
    /\ IF genState = "created"
       THEN /\ request' = StreamParams(args.input, args.model, args.system_prompt,
                                       args.max_tokens, args.temperature, args.kwargs)
            /\ calls' = calls + 1
            /\ IF open # None
               THEN /\ transport' = [kind |-> "stream", open |-> open, ending |-> None]
                    /\ result' = Raised(open)
                    /\ genState' = "raised"
                    /\ UNCHANGED <<delivered, yielded, acquired, released>>
               ELSE /\ acquired' = acquired + 1
                    /\ transport' = [kind |-> "stream", open |-> None,
                                     ending |-> IF item \in Fragments THEN None ELSE item]
                    /\ Iterate(item)
       ELSE /\ open = None
            /\ transport' = [transport EXCEPT !.ending =
                                IF item \in Fragments THEN None ELSE item]
            /\ Iterate(item)
            /\ UNCHANGED <<request, calls, acquired>>
    /\ UNCHANGED <<env, facades, facadeVars, method, args, bgVars, demo>>

\* The caller stops consuming the generator it is iterating (it leaves its loop,
\* or never starts it) and keeps its reference to it: no code of the facade
\* runs, the generator stays as it is, suspended inside its `with` block when it
\* has started.
Abandon ==
    /\ Running /\ GenLive
    /\ bgCreated + bgOpen < MaxBackground
    /\ IF genState = "created"
       THEN bgCreated' = bgCreated + 1 /\ bgOpen' = bgOpen
       ELSE bgOpen' = bgOpen + 1 /\ bgCreated' = bgCreated
    /\ ResetOp /\ ResetGen
    /\ UNCHANGED <<env, facades, facadeVars, demo>>

\* The caller takes up a generator it had set aside before its first next().
\* Such a generator is its bound arguments and nothing else (no line of
\* chat_stream has run), and the generators set aside are counted, not told
\* apart, so the arguments of the one taken up are an input of this step.  Its
\* first next() is then GenNext, which builds the request from these arguments
\* and records what the transport received and what the caller got.
ResumeCreated(self, message, model, system_prompt, max_tokens, temperature, kwargs) ==
    /\ Running /\ method = "none" /\ bgCreated > 0 /\ self \in facades
    /\ bgCreated' = bgCreated - 1
    /\ method' = "chat_stream"
    /\ args' = MkArgs(self, message, model, system_prompt, max_tokens,
                      temperature, kwargs)
    /\ genState' = "created"
    /\ UNCHANGED <<env, facades, facadeVars, transport, request, calls, result,
                   delivered, yielded, acquired, released, bgOpen, demo>>

\* close() or collection of a generator that was set aside before it started:
\* it just ends, no line of chat_stream runs.
BgClose ==
    /\ Running /\ bgCreated > 0
    /\ bgCreated' = bgCreated - 1
    /\ UNCHANGED <<env, facades, facadeVars, opVars, genVars, bgOpen, demo>>

\* The caller takes up a suspended generator it had set aside.  The generator
\* made its one transport request when it started and holds its stream; what
\* it was created with and what it yielded before is not recalled.
Resume ==
    /\ Running /\ method = "none" /\ bgOpen > 0
    /\ bgOpen' = bgOpen - 1
    /\ method' = "chat_stream" /\ args' = NoArgs /\ request' = NoRequest
    /\ transport' = [kind |-> "stream", open |-> None, ending |-> None]
    /\ calls' = 1 /\ result' = NoResult
    /\ genState' = "suspended" /\ delivered' = <<>> /\ yielded' = <<>>
    /\ acquired' = 1 /\ released' = 0
    /\ UNCHANGED <<env, facades, facadeVars, bgCreated, demo>>

\* generator.close(), called by the caller or by the runtime when it collects
\* the generator: GeneratorExit is raised at the suspended `yield`, so the
\* `with` block of line 105 exits; a generator that never started just ends.
GenClose ==
    /\ Running /\ GenLive
    /\ released' = IF genState = "suspended" THEN released + 1 ELSE released
    /\ genState' = "closed"
    /\ UNCHANGED <<env, facades, facadeVars, opVars, delivered, yielded, acquired,
                   bgVars, demo>>

\* The caller lets go of the call it made: the locals of the call (messages,
\* params, response), the finished generator, the outcome of the constructor.
\* The instances keep nothing of it.
Forget ==
    /\ Running /\ method # "none" /\ ~GenLive
    /\ ResetCtor /\ ResetOp /\ ResetGen
    /\ UNCHANGED <<env, facades, bgVars, demo>>

\* ClaudeClient.get_available_models, lines 146-159
GetAvailableModels(self) ==
    /\ CanCall /\ self \in facades
    /\ method' = "get_available_models"
    /\ args' = [NoArgs EXCEPT !.self = self]
    /\ result' = Returned(get_available_models)
    /\ UNCHANGED <<env, facades, facadeVars, transport, request, calls, genVars,
                   bgVars, demo>>

\* ------------------------------------------------ demonstration entry points
\* A demo is a run of steps; each prints lines and may raise.  The lines a
\* failing step printed before it raised are kept.
Step(out, err) == [out |-> out, err |-> err]

RECURSIVE RunSteps(_, _)
RunSteps(steps, printed) ==
    IF steps = <<>> THEN [out |-> printed, err |-> None]
    ELSE LET s == Head(steps)
         IN  IF s.err # None THEN [out |-> printed \o s.out, err |-> s.err]
             ELSE RunSteps(Tail(steps), printed \o s.out)

\* `client = ClaudeClient()` in a demo: no argument, the environment decides.
CtorStep(environ) ==
    IF InitRaises(InitApiKey(None, environ)) THEN Step(<<>>, "ValueError")
    ELSE Step(<<>>, None)

\* `response = client.chat(...)` (or chat_with_history) and the print of it.
ChatStep(label, behaviour) ==
    LET r == FirstText(behaviour)
    IN  IF r.kind = "raise" THEN Step(<<>>, r.value)
        ELSE Step(<< <<label, r.value>> >>, None)

\* `for chunk in client.chat_stream(...): print(chunk, ...)`, then the print
\* that ends the line.
StreamStep(header, sb) ==
    IF sb.open # None THEN Step(<<header>>, sb.open)
    ELSE LET chunks == [i \in 1..Len(sb.script) |-> <<"chunk", YieldOf(sb.script[i])>>]
         IN  IF sb.ending # "eos" THEN Step(<<header>> \o chunks, sb.ending)
             ELSE Step(<<header>> \o chunks \o << <<"end of line">> >>, None)

Hint == << <<"Please set your ANTHROPIC_API_KEY environment variable:">>,
           <<"export ANTHROPIC_API_KEY='your-api-key-here'">> >>

\* claude_client.py lines 163-188: one try block whose only handler is
\* `except ValueError`.
ClaudeClientMainRun(environ, b1, b2, sb) ==
    LET run == RunSteps(<< CtorStep(environ),
                           ChatStep("Claude:", b1),
                           ChatStep("Claude:", b2),
                           StreamStep(<<"Streaming response:">>, sb) >>, <<>>)
    IN  IF run.err = None
        THEN [entry |-> "claude_client", out |-> run.out, exit |-> "normal",
              error |-> None]
        ELSE IF run.err = "ValueError"
        THEN [entry |-> "claude_client",
              out |-> run.out \o << <<"Error:", run.err>> >> \o Hint,
              exit |-> "normal", error |-> None]
        ELSE [entry |-> "claude_client", out |-> run.out, exit |-> "uncaught",
              error |-> run.err]

\* example_usage.py line 10: load_dotenv() may set a variable that is unset and
\* leaves one that is set.
LoadDotenv(environ, dotenv) == IF environ = None THEN dotenv ELSE environ

\* example_usage.py lines 15, 17, 26, 28, ...: print("=" * 50)
Separator == <<"==================================================">>

\* The three prints that open an example: separator, title, separator.
Header(title) == Step(<<Separator, <<title>>, Separator>>, None)

\* example_usage.py lines 91-108: the credential check, then the five examples
\* (lines 13-88) under `except Exception`.
ExampleMainRun(environ, b1, b2, sb, b4, b5) ==
    IF ~Truthy(environ)
    THEN [entry |-> "example_usage",
          out |-> << <<"Error: ANTHROPIC_API_KEY environment variable not set.">>,
                     <<"Please set it in your .env file or export it:">>,
                     <<"export ANTHROPIC_API_KEY='your-api-key-here'">> >>,
          exit |-> "normal", error |-> None]
    ELSE LET run == RunSteps(
                 << Header("Example 1: Basic Chat"),
                    CtorStep(environ), ChatStep("Response:", b1),
                    Header("Example 2: Chat with System Prompt"),
                    CtorStep(environ), ChatStep("Response:", b2),
                    Header("Example 3: Streaming Response"),
                    CtorStep(environ), StreamStep(<<"Response (streaming): ">>, sb),
                    Header("Example 4: Conversation with History"),
                    CtorStep(environ), ChatStep("Response:", b4),
                    Header("Example 5: Using Different Models"),
                    CtorStep(environ),
                    Step(<< <<"Available models:">> >> \o
                         [i \in 1..Len(get_available_models) |->
                            <<"  - ", get_available_models[i]>>] \o
                         << <<"Using Claude Haiku:">> >>, None),
                    ChatStep("Response:", b5) >>, <<>>)
         IN  [entry |-> "example_usage",
              out |-> IF run.err = None THEN run.out
                      ELSE run.out \o << <<"Error:", run.err>> >>,
              exit |-> "normal", error |-> None]

\* A demo runs in a process of its own, from its start to its exit.
Fresh ==
    /\ Running /\ method = "none" /\ facades = {}
    /\ bgCreated = 0 /\ bgOpen = 0

\* The __main__ block of claude_client.py: line 166 constructs the facade, the
\* calls that follow leave nothing behind but what was printed.
ClaudeClientMain(b1, b2, sb) ==
    /\ Fresh
    /\ Initialize(None, env)
    /\ demo' = ClaudeClientMainRun(env, b1, b2, sb)
    /\ UNCHANGED <<env, opVars, genVars, bgVars>>

\* main() of example_usage.py after the load_dotenv() of line 10: with a
\* credential every example that runs constructs a facade of its own, all from
\* the same environment; without one no facade is constructed.
ExampleMain(dotenv, b1, b2, sb, b4, b5) ==
    /\ Fresh
    /\ env' = LoadDotenv(env, dotenv)
    /\ IF Truthy(env') THEN Initialize(None, env')
       ELSE UNCHANGED <<facades, facadeVars>>
    /\ demo' = ExampleMainRun(env', b1, b2, sb, b4, b5)
    /\ UNCHANGED <<opVars, genVars, bgVars>>

\* The transport behaviours the demos are run against.
DemoBehaviours ==
    {[kind |-> "reply", content |-> <<Block("pong")>>, err |-> None],
     [kind |-> "reply", content |-> <<>>, err |-> None],
     [kind |-> "raise", content |-> <<>>, err |-> "RateLimitError"]}

ChatExtras    == ExtraOptions("chat")
HistoryExtras == ExtraOptions("chat_with_history")
StreamExtras  == ExtraOptions("chat_stream")
Histories     == SeqsUpTo(Turns, MaxTurns)
OpenOutcomes  == {None} \cup TransportErrors

Next ==
    \/ \E a \in ApiKeyArgs : Construct(a)
    \/ CanCall /\
       \E self \in facades, m \in Texts, na \in NamedArgs, sp \in SystemPrompts,
          kw \in ChatExtras, b \in CreateBehaviours :
          Chat(self, m, na.model, sp, na.max_tokens, na.temperature, kw, b)
    \/ CanCall /\
       \E self \in facades, ms \in Histories, na \in NamedArgs,
          sp \in SystemPrompts, kw \in HistoryExtras, b \in CreateBehaviours :
          ChatWithHistory(self, ms, na.model, sp, na.max_tokens, na.temperature,
                          kw, b)
    \/ CanCall /\
       \E self \in facades, m \in Texts, na \in NamedArgs, sp \in SystemPrompts,
          kw \in StreamExtras :
          ChatStream(self, m, na.model, sp, na.max_tokens, na.temperature, kw)
    \/ GenLive /\
       \E open \in OpenOutcomes, item \in StreamItems : GenNext(open, item)
    \/ Abandon
    \/ (method = "none" /\ bgCreated > 0) /\
       \E self \in facades, m \in Texts, na \in NamedArgs, sp \in SystemPrompts,
          kw \in StreamExtras :
          ResumeCreated(self, m, na.model, sp, na.max_tokens, na.temperature, kw)
    \/ BgClose
    \/ Resume
    \/ GenClose
    \/ Forget
    \/ CanCall /\ \E self \in facades : GetAvailableModels(self)
    \/ Fresh /\
       \E b1 \in DemoBehaviours, b2 \in DemoBehaviours, sb \in StreamBehaviours :
          ClaudeClientMain(b1, b2, sb)
    \/ Fresh /\
       \E dotenv \in EnvValues, b1 \in DemoBehaviours, b2 \in DemoBehaviours,
          sb \in StreamBehaviours, b4 \in DemoBehaviours, b5 \in DemoBehaviours :
          ExampleMain(dotenv, b1, b2, sb, b4, b5)

Spec == Init /\ [][Next]_vars

\* A caller that is iterating a generator keeps iterating it, and the transport
\* answers every read of the text stream.  Nothing makes a caller take up a
\* generator it set aside or close one it holds, and nothing makes the runtime
\* collect one that is still referenced.
FairSpec ==
    Spec /\ WF_vars(GenLive /\ \E open \in OpenOutcomes, item \in StreamItems :
                                   GenNext(open, item))

\* ---------------------------------------------------------------- claims

\* C1: constructing the facade with no api_key argument while the environment
\* variable is unset ends in ValueError; no transport handle exists, no
\* transport request was made, and the environment is as it was.
C1_NoCredentialFails ==
    (ctorResult # "none" /\ ctorArg = None /\ envAtCtor = None) =>
        /\ ctorResult = "ValueError"
        /\ client = NoClient
        /\ calls = 0 /\ request = NoRequest
        /\ env = envAtCtor /\ envReads = 1

C1_Witness == ctorResult # "none" /\ ctorArg = None /\ envAtCtor = None

\* C2 as stated: with any explicit argument, the empty string included, the
\* environment variable is not read and the credential is the argument.
C2_AnyExplicitArgument ==
    (ctorResult # "none" /\ ctorArg # None) =>
        (envReads = 0 /\ api_key = ctorArg)

\* C2 amended: a non-empty explicit argument is the credential and the
\* environment variable is not read, whatever it holds; an explicit empty string
\* is treated as an omitted argument: the environment variable is read and its
\* value is the credential.
C2_NonEmptyExplicitArgument ==
    ctorResult # "none" =>
        /\ Truthy(ctorArg) =>
              (envReads = 0 /\ api_key = ctorArg /\ ctorResult = "ok"
               /\ client = Anthropic(ctorArg) /\ ctorArg \in facades)
        /\ ctorArg = "" => (envReads = 1 /\ api_key = envAtCtor)

C2_Witness ==
    ctorResult = "ok" /\ ctorArg = "sk-arg" /\ envAtCtor = "sk-env"

\* The stream resources that are acquired and not released: the one of the
\* generator the caller is iterating and those of the generators it set aside.
OpenStreams == (acquired - released) + bgOpen

\* C3: every stream resource that was acquired is eventually released, on
\* end of stream, on a transport error and after the caller stops consuming.
C3_StreamReleased == (OpenStreams > 0) ~> (OpenStreams = 0)

\* C4: the generator hands the caller exactly the fragments the transport's
\* text stream produced, in order, each once, and ends when the stream ends; a
\* fresh call after an earlier chat_stream call makes its own transport request
\* and yields what its own stream produces.
C4_StreamFaithful ==
    method = "chat_stream" =>
        /\ yielded = delivered
        /\ calls <= 1 /\ acquired <= calls
        /\ result.kind = "yield" =>
              (yielded # <<>> /\ result.value = delivered[Len(delivered)])
        /\ genState = "finished" =>
              (result = Stopped /\ calls = 1 /\ released = acquired)

\* A second stream, read to its end while the stream of an earlier call is
\* still open.
C4_Witness ==
    /\ bgOpen > 0 /\ method = "chat_stream" /\ args.input \in Texts
    /\ genState = "finished" /\ delivered = <<"a", "b">> /\ yielded = delivered

\* C5: chat_with_history hands the transport the caller's turn sequence as it
\* is, in one request, whatever the other arguments and whatever was sent before.
C5_HistoryUnmodified ==
    method = "chat_with_history" =>
        (request.messages = args.input /\ calls = 1)

C5_Witness ==
    /\ method = "chat_with_history" /\ bgOpen > 0
    /\ Len(args.input) = 3 /\ DOMAIN args.kwargs # {}
    /\ Truthy(args.system_prompt)

\* The reply of the stub has a first content block.
HasFirstBlock == transport.kind = "reply" /\ transport.content # <<>>

\* C6 as stated: for every combination of arguments, extra options included,
\* the request of chat holds exactly one user turn with the input text, there is
\* exactly one transport request, and the first block's text is returned.
C6_AlwaysOneUserTurn ==
    method = "chat" =>
        /\ request.messages = <<UserTurn(args.input)>>
        /\ calls = 1
        /\ HasFirstBlock => result = Returned(transport.content[1].text)

\* C6 amended: the same, except that an extra option named `messages` replaces
\* the one-turn conversation in the request.
C6_OneUserTurnUnlessOverridden ==
    method = "chat" =>
        /\ request.messages =
              IF "messages" \in DOMAIN args.kwargs THEN args.kwargs.messages
              ELSE <<UserTurn(args.input)>>
        /\ calls = 1
        /\ HasFirstBlock => result = Returned(transport.content[1].text)

C6_Witness ==
    /\ method = "chat" /\ "top_p" \in DOMAIN args.kwargs
    /\ Truthy(args.system_prompt)
    /\ transport.kind = "reply" /\ Len(transport.content) = 2
    /\ result = Returned("pong")

\* C7: an error raised by the transport reaches the caller as it is, in chat,
\* chat_with_history and chat_stream (when the stream is opened and while it is
\* read), and no operation makes more than one transport request.
C7_ErrorsPropagate ==
    /\ calls <= 1
    /\ (method \in {"chat", "chat_with_history"} /\ transport.kind = "raise") =>
          (result = Raised(transport.err) /\ calls = 1)
    /\ (method = "chat_stream" /\ transport.kind = "stream") =>
          /\ transport.open # None =>
                (result = Raised(transport.open) /\ genState = "raised")
          /\ transport.ending \in TransportErrors =>
                (result = Raised(transport.ending) /\ genState = "raised"
                 /\ calls = 1)

C7_Witness ==
    /\ method = "chat" /\ transport.kind = "raise"
    /\ result = Raised("RateLimitError")

\* C8: get_available_models returns a non-empty sequence, the same on every
\* call whatever ran before (the five identifiers of lines 153-159), and a call
\* changes nothing else: no transport request, no instance, no generator.
C8_ModelsFixed ==
    [][ (method # "get_available_models" /\ method' = "get_available_models") =>
          /\ result' = Returned(<< "claude-3-5-sonnet-20241022",
                                   "claude-3-5-haiku-20241022",
                                   "claude-3-opus-20240229",
                                   "claude-3-sonnet-20240229",
                                   "claude-3-haiku-20240307" >>)
          /\ calls' = 0 /\ request' = NoRequest
          /\ UNCHANGED <<env, facades, facadeVars, genVars, bgVars, demo>> ]_vars

\* The list was asked for while the stream of an earlier chat_stream call is
\* open.
C8_Witness ==
    /\ method = "get_available_models" /\ bgOpen > 0
    /\ result.kind = "return" /\ Len(result.value) > 0

\* C9: at both demonstration entry points a missing credential prints the
\* remediation hint and stops, and no other error leaves the entry point
\* uncaught.
C9_NoErrorEscapes ==
    demo.exit # "none" =>
        /\ demo.exit = "normal"
        /\ ~Truthy(env) => Len(demo.out) = 3

\* The named parameters that have a request key.
NamedKeys == {"model", "max_tokens", "temperature", "system"}

\* C10 as stated: an extra option under the request key of a named parameter
\* (the system instruction included) is what the request carries.
C10_ExtrasOverrideNamed ==
    DOMAIN request # {} =>
        \A k \in DOMAIN args.kwargs \cap NamedKeys : request[k] = args.kwargs[k]

\* C10 amended: the extras are merged over the base request, so an extra option
\* replaces the base entry of its key (messages, stream); model, max_tokens and
\* temperature are never among the extras and the request carries the named
\* arguments' values; the system instruction is written after the merge, so a
\* non-empty system_prompt overrides an extra `system`, which is sent only when
\* system_prompt is None or empty.
C10_ExtrasOverrideBase ==
    DOMAIN request # {} =>
        /\ \A k \in DOMAIN args.kwargs \ {"system"} : request[k] = args.kwargs[k]
        /\ "system" \in DOMAIN args.kwargs =>
              request.system = IF Truthy(args.system_prompt)
                               THEN args.system_prompt ELSE args.kwargs.system
        /\ request.model = args.model
        /\ request.max_tokens = args.max_tokens
        /\ request.temperature = args.temperature

C10_Witness ==
    /\ method = "chat_stream" /\ calls = 1
    /\ "system" \in DOMAIN args.kwargs /\ Truthy(args.system_prompt)

=============================================================================
